---- MODULE Spec2Model ----
(***************************************************************************)
(* A model of the TLS part of `serve` (src/src/tls.rs): start_tls_server   *)
(* joins three futures (the HTTPS listener, the HTTP->HTTPS redirect       *)
(* listener and the certificate watcher); init_certificate_watch turns     *)
(* content-modified events into messages on a tokio mpsc channel of        *)
(* capacity 1 and reloads the rustls configuration in a loop with a        *)
(* doubling delay; redirect answers every plain HTTP request.              *)
(***************************************************************************)
EXTENDS Integers, Sequences, FiniteSets, TLC

----------------------------------------------------------------------------
(* Bounds of the model. *)

\* HTTPS connections open at one time
MaxConns == 1
\* filesystem notifications the environment may still deliver
MaxEvents == 2
\* well-formed versions of the certificate/key pair: 1..MaxVer
MaxVer == 2
\* consecutive failed reloads in the specification of the whole program
MaxFails == 3
\* the history counter of consecutive failures saturates here
FailsCap == 66
\* longest Host header value of a redirect request
MaxHostLen == 4

----------------------------------------------------------------------------
(* Program constants. *)

\* tokio::sync::mpsc::channel(1)
Capacity == 1
\* let mut delay: u64
DelayBits == 64
\* port == 443
HTTPS_PORT == 443
\* a port other than 443 (the default of `serve` is 3000)
OTHER_PORT == 3000

----------------------------------------------------------------------------
(* u64 arithmetic.  TLC's integers are 32 bits wide, so a u64 is kept as   *)
(* NLimbs little-endian limbs of LimbBits bits each.                       *)

LimbBits == DelayBits \div 4
LimbBase == 2 ^ LimbBits
NLimbs == DelayBits \div LimbBits

U64 == [1..NLimbs -> 0..(LimbBase - 1)]

\* the u64 with value n, for 0 <= n < LimbBase
U64Of(n) == [i \in 1..NLimbs |-> IF i = 1 THEN n ELSE 0]

\* the carry out of limb i when d is doubled
CarryOut(d, i) == (2 * d[i]) \div LimbBase

\* d * 2 overflows 64 bits
MulOverflows(d) == CarryOut(d, NLimbs) = 1

\* d.wrapping_mul(2): what `delay *= 2` stores when overflow checks are off
WrappingMul2(d) ==
    [i \in 1..NLimbs |->
        (2 * d[i] + (IF i > 1 THEN CarryOut(d, i - 1) ELSE 0)) % LimbBase]

----------------------------------------------------------------------------
(* Contents of the certificate and key files.  Bad stands for contents     *)
(* from which no configuration can be built (truncated, malformed, or the  *)
(* file is missing); v in 1..MaxVer is the v-th well-formed version.       *)

Bad == 0
Versions == 1..MaxVer
Contents == {Bad} \cup Versions

\* The results RustlsConfig::from_pem_file / reload_from_pem_file can give
\* for the bytes read from the two files: Err when either is unusable, Ok
\* when both are of one version.  For a well-formed certificate with a
\* well-formed key of another version the result depends on whether the TLS
\* library linked into the build checks that the key matches the
\* certificate, which the source does not determine: both results.
LoadResults(c, k) ==
    IF c = Bad \/ k = Bad THEN {"Err"}
    ELSE IF c = k THEN {"Ok"}
    ELSE {"Ok", "Err"}

----------------------------------------------------------------------------
VARIABLES
    main,                   \* start_tls_server: "start", "join", "returned_err", "panicked"
    tls_redirect_http,      \* tls.redirect_http
    addr_port,              \* addr.port()
    server,                 \* 1st future of join!: "init", "serving", "err"
    http_to_https_redirect, \* 2nd future: "init", "serving", "err", "ok", "ok_logged"
    tls_watcher,            \* 3rd future, the position in init_certificate_watch
    cert_file, key_file,    \* the contents of tls.cert and tls.key on disk
    read_cert, read_key,    \* the bytes a reload in progress has read
    tls_config,             \* the shared RustlsConfig: <<certificate, key>> or NoConfig
    slot,                   \* the channel's one permit: "free", "granted", "full"
    spawned,                \* spawned sender tasks that have not been polled yet
    parked,                 \* sender tasks waiting for a permit
    delay,                  \* the u64 delay of init_certificate_watch
    fails,                  \* history: consecutive failed reloads (saturating)
    events_left,            \* notifications the environment may still deliver
    conns,                  \* the contexts of the open HTTPS connections
    req,                    \* the request the redirect handler is given
    resp,                   \* its response
    cli,                    \* the command line `serve` was started with
    config_file,            \* what is at the path given with --config
    resolved                \* the result of ServeArgs::resolve_config

tlsvars == <<main, tls_redirect_http, addr_port, server, http_to_https_redirect,
             tls_watcher, cert_file, key_file, read_cert, read_key, tls_config,
             slot, spawned, parked, delay, fails, events_left, conns>>
httpvars == <<req, resp>>
cfgvars == <<cli, config_file, resolved>>
vars == <<tlsvars, httpvars, cfgvars>>

NoConfig == <<>>
NoRequest == [kind |-> "none"]
NoResponse == [kind |-> "none", status |-> 0, location |-> <<>>]

\* no command line is being resolved
NoCli == [kind |-> "none"]
NoFile == [kind |-> "none", args |-> <<>>]
NoResult == [kind |-> "none", args |-> <<>>, err |-> <<>>]
ConfigResolved ==
    /\ cli = NoCli
    /\ config_file = NoFile
    /\ resolved = NoResult

----------------------------------------------------------------------------
(* start_tls_server *)

\* start_tls_server is called while the environment may still deliver n
\* notifications; each of the two files holds its part of one version or is
\* unusable
Start(n) ==
    /\ main = "start"
    /\ tls_redirect_http \in BOOLEAN
    /\ addr_port \in {HTTPS_PORT, OTHER_PORT}
    /\ server = "init"
    /\ http_to_https_redirect = "init"
    /\ tls_watcher = "init"
    /\ \E v \in Versions :
          /\ cert_file \in {v, Bad}
          /\ key_file \in {v, Bad}
    /\ read_cert = Bad
    /\ read_key = Bad
    /\ tls_config = NoConfig
    /\ slot = "free"
    /\ spawned = 0
    /\ parked = 0
    /\ delay = U64Of(1)
    /\ fails = 0
    /\ events_left = n
    /\ conns = <<>>
    /\ req = NoRequest
    /\ resp = NoResponse
    /\ ConfigResolved

Init == Start(MaxEvents)

\* The initial load without its `?`: start_tls_server goes on to join!
\* whatever the result
InitialLoad_unchecked ==
    /\ main = "start"
    /\ \E r \in LoadResults(cert_file, key_file) :
          /\ tls_config' = IF r = "Ok" THEN <<cert_file, key_file>>
                           ELSE tls_config
          /\ main' = "join"
    /\ UNCHANGED <<tls_redirect_http, addr_port, server, http_to_https_redirect,
                   tls_watcher, cert_file, key_file, read_cert, read_key,
                   slot, spawned, parked, delay, fails,
                   events_left, conns, httpvars, cfgvars>>

\* RustlsConfig::from_pem_file(&tls.cert, &tls.key).await? : on Err the
\* function returns before join! is reached.
InitialLoad ==
    /\ main = "start"
    /\ \E r \in LoadResults(cert_file, key_file) :
          IF r = "Ok"
          THEN /\ tls_config' = <<cert_file, key_file>>
               /\ main' = "join"
          ELSE /\ tls_config' = tls_config
               /\ main' = "returned_err"
    /\ UNCHANGED <<tls_redirect_http, addr_port, server, http_to_https_redirect,
                   tls_watcher, cert_file, key_file, read_cert, read_key,
                   slot, spawned, parked, delay, fails,
                   events_left, conns, httpvars, cfgvars>>

\* axum_server::bind_rustls(addr, config.clone()).serve(service): binds and
\* serves for ever, or ends with the error of the bind.
ServerStart ==
    /\ main = "join"
    /\ server = "init"
    /\ \E bound \in BOOLEAN : server' = IF bound THEN "serving" ELSE "err"
    /\ UNCHANGED <<main, tls_redirect_http, addr_port, http_to_https_redirect,
                   tls_watcher, cert_file, key_file, read_cert, read_key,
                   tls_config, slot, spawned, parked, delay, fails,
                   events_left, conns, httpvars, cfgvars>>

\* init_http_to_https_redirect without the test of the port: the listener
\* on port 80 is bound whenever the redirect is asked for
init_http_to_https_redirect_any_port ==
    /\ main = "join"
    /\ http_to_https_redirect = "init"
    /\ IF tls_redirect_http
       THEN \E bound \in BOOLEAN :
               http_to_https_redirect' = IF bound THEN "serving" ELSE "err"
       ELSE http_to_https_redirect' = "ok"
    /\ UNCHANGED <<main, tls_redirect_http, addr_port, server,
                   tls_watcher, cert_file, key_file, read_cert, read_key,
                   tls_config, slot, spawned, parked, delay, fails,
                   events_left, conns, httpvars, cfgvars>>

\* init_http_to_https_redirect(tls.redirect_http, addr.port(), addr.ip())
init_http_to_https_redirect ==
    /\ main = "join"
    /\ http_to_https_redirect = "init"
    /\ IF tls_redirect_http /\ addr_port = HTTPS_PORT
       THEN \E bound \in BOOLEAN :
               http_to_https_redirect' = IF bound THEN "serving" ELSE "err"
       ELSE IF tls_redirect_http /\ addr_port # HTTPS_PORT
       THEN http_to_https_redirect' = "ok_logged"
       ELSE http_to_https_redirect' = "ok"
    /\ UNCHANGED <<main, tls_redirect_http, addr_port, server,
                   tls_watcher, cert_file, key_file, read_cert, read_key,
                   tls_config, slot, spawned, parked, delay, fails,
                   events_left, conns, httpvars, cfgvars>>

\* a future of join! has completed
Completed(f) == f \in {"err", "ok", "ok_logged"}

\* join! completes when all three futures have; `server?` etc. then return
\* the first error.  No future ends with Ok while the others have ended
\* (serve and the reload loop do not end), so the result is an error.
JoinReturn ==
    /\ main = "join"
    /\ Completed(server)
    /\ Completed(http_to_https_redirect)
    /\ Completed(tls_watcher)
    /\ main' = IF "err" \in {server, http_to_https_redirect, tls_watcher}
               THEN "returned_err" ELSE "returned_ok"
    /\ UNCHANGED <<tls_redirect_http, addr_port, server, http_to_https_redirect,
                   tls_watcher, cert_file, key_file, read_cert, read_key,
                   tls_config, slot, spawned, parked, delay, fails,
                   events_left, conns, httpvars, cfgvars>>

\* The serve future of bind_rustls(addr, config.clone()) accepts a
\* connection: its handshake is made with the configuration the shared
\* handle holds at that moment, and the connection keeps it.
Accept ==
    /\ main = "join"
    /\ server = "serving"
    /\ Len(conns) < MaxConns
    /\ conns' = Append(conns, tls_config)
    /\ UNCHANGED <<main, tls_redirect_http, addr_port, server,
                   http_to_https_redirect, tls_watcher, cert_file, key_file,
                   read_cert, read_key, tls_config, slot, spawned, parked,
                   delay, fails, events_left, httpvars, cfgvars>>

\* connection i ends
Close(i) ==
    /\ main = "join"
    /\ i \in 1..Len(conns)
    /\ conns' = SubSeq(conns, 1, i - 1) \o SubSeq(conns, i + 1, Len(conns))
    /\ UNCHANGED <<main, tls_redirect_http, addr_port, server,
                   http_to_https_redirect, tls_watcher, cert_file, key_file,
                   read_cert, read_key, tls_config, slot, spawned, parked,
                   delay, fails, events_left, httpvars, cfgvars>>

----------------------------------------------------------------------------
(* init_certificate_watch *)

\* the watcher exists and both paths are watched: the function is in its loop
Watching ==
    tls_watcher \in {"recv", "read_cert", "read_key", "reload_result",
                     "sleep", "retry_send", "retry_parked"}

\* RecommendedWatcher::new(..)?, watcher.watch(cert)?, watcher.watch(key)? :
\* everything up to the first rx.recv().await runs without suspending; any
\* of the three `?` ends the function with the notify error.
init_certificate_watch ==
    /\ main = "join"
    /\ tls_watcher = "init"
    /\ \E registered \in BOOLEAN :
          tls_watcher' = IF registered THEN "recv" ELSE "err"
    /\ UNCHANGED <<main, tls_redirect_http, addr_port, server,
                   http_to_https_redirect, cert_file, key_file, read_cert,
                   read_key, tls_config, slot, spawned, parked, delay, fails,
                   events_left, conns, httpvars, cfgvars>>

EventKinds == {"content", "metadata", "create", "remove", "error"}

\* The closure without its filter on the kind of the event: every Ok(event)
\* spawns a sender
WatcherCallback_unfiltered(kind, file, c) ==
    /\ main = "join"
    /\ Watching
    /\ events_left > 0
    /\ events_left' = events_left - 1
    /\ LET written == IF kind = "content" THEN c
                      ELSE IF kind = "remove" THEN Bad
                      ELSE IF file = "cert" THEN cert_file ELSE key_file
       IN  /\ cert_file' = IF file = "cert" THEN written ELSE cert_file
           /\ key_file' = IF file = "key" THEN written ELSE key_file
    /\ spawned' = IF kind # "error" THEN spawned + 1 ELSE spawned
    /\ UNCHANGED <<main, tls_redirect_http, addr_port, server,
                   http_to_https_redirect, tls_watcher, read_cert, read_key,
                   tls_config, slot, parked, delay, fails,
                   conns, httpvars, cfgvars>>

\* The closure given to RecommendedWatcher::new, called for one
\* notification about `file`.  A content-modified event
\* (EventKind::Modify(ModifyKind::Data(DataChange::Content))) spawns a task
\* that sends on the channel; every other kind and Err(e) do nothing.
\* A content-modified event comes with new contents c, a removal leaves the
\* file missing.
WatcherCallback(kind, file, c) ==
    /\ main = "join"
    /\ Watching
    /\ events_left > 0
    /\ events_left' = events_left - 1
    /\ LET written == IF kind = "content" THEN c
                      ELSE IF kind = "remove" THEN Bad
                      ELSE IF file = "cert" THEN cert_file ELSE key_file
       IN  /\ cert_file' = IF file = "cert" THEN written ELSE cert_file
           /\ key_file' = IF file = "key" THEN written ELSE key_file
    /\ spawned' = IF kind = "content" THEN spawned + 1 ELSE spawned
    /\ UNCHANGED <<main, tls_redirect_http, addr_port, server,
                   http_to_https_redirect, tls_watcher, read_cert, read_key,
                   tls_config, slot, parked, delay, fails,
                   conns, httpvars, cfgvars>>

\* First poll of a spawned task, tx.send(()).await: the message is queued
\* when the permit is free, otherwise the task waits for capacity.
SenderPoll ==
    /\ main = "join"
    /\ spawned > 0
    /\ spawned' = spawned - 1
    /\ IF slot = "free"
       THEN slot' = "full" /\ parked' = parked
       ELSE slot' = slot /\ parked' = parked + 1
    /\ UNCHANGED <<main, tls_redirect_http, addr_port, server,
                   http_to_https_redirect, tls_watcher, cert_file, key_file,
                   read_cert, read_key, tls_config, delay, fails,
                   events_left, conns, httpvars, cfgvars>>

\* A waiting sender that was handed the permit is polled and queues its
\* message.
SenderWake ==
    /\ main = "join"
    /\ slot = "granted"
    /\ slot' = "full"
    /\ UNCHANGED <<main, tls_redirect_http, addr_port, server,
                   http_to_https_redirect, tls_watcher, cert_file, key_file,
                   read_cert, read_key, tls_config, spawned, parked, delay,
                   fails, events_left, conns, httpvars, cfgvars>>

\* rx.recv().await as it would be if the channel could close: with the queue
\* empty it returns None and the loop ends with Ok(())
Recv_or_closed ==
    /\ main = "join"
    /\ tls_watcher = "recv"
    /\ IF slot = "full"
       THEN /\ IF parked > 0
               THEN slot' = "granted" /\ parked' = parked - 1
               ELSE slot' = "free" /\ parked' = parked
            /\ tls_watcher' = "read_cert"
       ELSE /\ slot' = slot
            /\ parked' = parked
            /\ tls_watcher' = "ok"
    /\ UNCHANGED <<main, tls_redirect_http, addr_port, server,
                   http_to_https_redirect, cert_file, key_file, read_cert,
                   read_key, tls_config, spawned, delay, fails, events_left,
                   conns, httpvars, cfgvars>>

\* rx.recv().await returns Some(()): the message leaves the queue and its
\* permit goes to the first waiting sender, if any.
Recv ==
    /\ main = "join"
    /\ tls_watcher = "recv"
    /\ slot = "full"
    /\ IF parked > 0
       THEN slot' = "granted" /\ parked' = parked - 1
       ELSE slot' = "free" /\ parked' = parked
    /\ tls_watcher' = "read_cert"
    /\ UNCHANGED <<main, tls_redirect_http, addr_port, server,
                   http_to_https_redirect, cert_file, key_file, read_cert,
                   read_key, tls_config, spawned, delay, fails, events_left,
                   conns, httpvars, cfgvars>>

\* reload_from_pem_file(cert, key).await takes two paths: it reads the
\* certificate file ...
ReadCert ==
    /\ main = "join"
    /\ tls_watcher = "read_cert"
    /\ read_cert' = cert_file
    /\ tls_watcher' = "read_key"
    /\ UNCHANGED <<main, tls_redirect_http, addr_port, server,
                   http_to_https_redirect, cert_file, key_file, read_key,
                   tls_config, slot, spawned, parked, delay, fails,
                   events_left, conns, httpvars, cfgvars>>

\* ... and then the key file.
ReadKey ==
    /\ main = "join"
    /\ tls_watcher = "read_key"
    /\ read_key' = key_file
    /\ tls_watcher' = "reload_result"
    /\ UNCHANGED <<main, tls_redirect_http, addr_port, server,
                   http_to_https_redirect, cert_file, key_file, read_cert,
                   tls_config, slot, spawned, parked, delay, fails,
                   events_left, conns, httpvars, cfgvars>>

\* The reload as it would be if init_certificate_watch were given a handle
\* of its own instead of the one the listener holds: the listener's
\* configuration stays what it was
ReloadOk_other_handle ==
    /\ main = "join"
    /\ tls_watcher = "reload_result"
    /\ "Ok" \in LoadResults(read_cert, read_key)
    /\ tls_config' = tls_config
    /\ delay' = U64Of(1)
    /\ fails' = 0
    /\ read_cert' = Bad
    /\ read_key' = Bad
    /\ tls_watcher' = "recv"
    /\ UNCHANGED <<main, tls_redirect_http, addr_port, server,
                   http_to_https_redirect, cert_file, key_file, slot, spawned,
                   parked, events_left, conns, httpvars, cfgvars>>

\* Ok(_) => { delay = 1; } : the configuration built from the bytes read
\* has replaced the shared one.
ReloadOk ==
    /\ main = "join"
    /\ tls_watcher = "reload_result"
    /\ "Ok" \in LoadResults(read_cert, read_key)
    /\ tls_config' = <<read_cert, read_key>>
    /\ delay' = U64Of(1)
    /\ fails' = 0
    /\ read_cert' = Bad
    /\ read_key' = Bad
    /\ tls_watcher' = "recv"
    /\ UNCHANGED <<main, tls_redirect_http, addr_port, server,
                   http_to_https_redirect, cert_file, key_file, slot, spawned,
                   parked, events_left, conns, httpvars, cfgvars>>

\* Err(e) => { delay *= 2; ... sleep(..).await : when the multiplication
\* overflows it panics in a build with overflow checks (the panic unwinds
\* through join! and start_tls_server) and wraps in a build without.
ReloadErr ==
    /\ main = "join"
    /\ tls_watcher = "reload_result"
    /\ "Err" \in LoadResults(read_cert, read_key)
    /\ read_cert' = Bad
    /\ read_key' = Bad
    /\ fails' = IF fails < FailsCap THEN fails + 1 ELSE fails
    /\ \E overflow_checks \in (IF MulOverflows(delay) THEN BOOLEAN ELSE {FALSE}) :
          IF overflow_checks
          THEN /\ delay' = delay
               /\ tls_watcher' = "panicked"
               /\ main' = "panicked"
          ELSE /\ delay' = WrappingMul2(delay)
               /\ tls_watcher' = "sleep"
               /\ main' = main
    /\ UNCHANGED <<tls_redirect_http, addr_port, server,
                   http_to_https_redirect, cert_file, key_file, tls_config,
                   slot, spawned, parked, events_left, conns, httpvars, cfgvars>>

\* The retry made in place: after the sleep the function reloads again
\* without going through the channel
SleepDone_reloads ==
    /\ main = "join"
    /\ tls_watcher = "sleep"
    /\ tls_watcher' = "read_cert"
    /\ UNCHANGED <<main, tls_redirect_http, addr_port, server,
                   http_to_https_redirect, cert_file, key_file, read_cert,
                   read_key, tls_config, slot, spawned, parked, delay, fails,
                   events_left, conns, httpvars, cfgvars>>

\* sleep(Duration::from_millis(delay)).await is over
SleepDone ==
    /\ main = "join"
    /\ tls_watcher = "sleep"
    /\ tls_watcher' = "retry_send"
    /\ UNCHANGED <<main, tls_redirect_http, addr_port, server,
                   http_to_https_redirect, cert_file, key_file, read_cert,
                   read_key, tls_config, slot, spawned, parked, delay, fails,
                   events_left, conns, httpvars, cfgvars>>

\* retry_tx.send(()).await : queued when the permit is free; otherwise the
\* function waits for capacity.  Capacity comes from rx.recv() alone, which
\* this same function calls only after the send: no step leaves
\* "retry_parked".
RetrySend ==
    /\ main = "join"
    /\ tls_watcher = "retry_send"
    /\ IF slot = "free"
       THEN slot' = "full" /\ tls_watcher' = "recv"
       ELSE slot' = slot /\ tls_watcher' = "retry_parked"
    /\ UNCHANGED <<main, tls_redirect_http, addr_port, server,
                   http_to_https_redirect, cert_file, key_file, read_cert,
                   read_key, tls_config, spawned, parked, delay, fails,
                   events_left, conns, httpvars, cfgvars>>

----------------------------------------------------------------------------
(* The specifications of the TLS part. *)

Environment ==
    \E kind \in EventKinds, file \in {"cert", "key"}, c \in Contents :
        WatcherCallback(kind, file, c)

\* The whole of start_tls_server, with at most MaxFails consecutive failed
\* reloads.
Next ==
    \/ InitialLoad
    \/ ServerStart
    \/ init_http_to_https_redirect
    \/ init_certificate_watch
    \/ JoinReturn
    \/ Environment
    \/ SenderPoll
    \/ SenderWake
    \/ Recv
    \/ ReadCert
    \/ ReadKey
    \/ ReloadOk
    \/ (fails < MaxFails /\ ReloadErr)
    \/ SleepDone
    \/ RetrySend

Spec == Init /\ [][Next]_vars

\* The reload loop alone, with no bound on the failures: start_tls_server
\* has loaded version v, the HTTPS listener serves, no redirect was asked
\* for and init_certificate_watch waits in rx.recv() for the first time.
InitReload ==
    /\ main = "join"
    /\ tls_redirect_http = FALSE
    /\ addr_port = OTHER_PORT
    /\ server = "serving"
    /\ http_to_https_redirect = "ok"
    /\ tls_watcher = "recv"
    /\ \E v \in Versions :
          /\ cert_file = v
          /\ key_file = v
          /\ tls_config = <<v, v>>
    /\ read_cert = Bad
    /\ read_key = Bad
    /\ slot = "free"
    /\ spawned = 0
    /\ parked = 0
    /\ delay = U64Of(1)
    /\ fails = 0
    /\ events_left = MaxEvents
    /\ conns = <<>>
    /\ req = NoRequest
    /\ resp = NoResponse
    /\ ConfigResolved

NextReload ==
    \/ Environment
    \/ SenderPoll
    \/ SenderWake
    \/ Recv
    \/ ReadCert
    \/ ReadKey
    \/ ReloadOk
    \/ ReloadErr
    \/ SleepDone
    \/ RetrySend

SpecReload == InitReload /\ [][NextReload]_vars

\* The tokio runtime polls every task that can run, and a sleep ends: each
\* step of the program is taken if it stays possible.  The environment owes
\* nothing.
FairSpecReload ==
    /\ SpecReload
    /\ WF_vars(SenderPoll)
    /\ WF_vars(SenderWake)
    /\ WF_vars(Recv)
    /\ WF_vars(ReadCert)
    /\ WF_vars(ReadKey)
    /\ WF_vars(ReloadOk \/ ReloadErr)
    /\ WF_vars(SleepDone)
    /\ WF_vars(RetrySend)

\* The HTTPS listener and the reload loop side by side, with at most
\* MaxFails consecutive failed reloads: connections are accepted and closed
\* while the files change and reloads run.
NextServe ==
    \/ Accept
    \/ \E i \in 1..MaxConns : Close(i)
    \/ Environment
    \/ SenderPoll
    \/ SenderWake
    \/ Recv
    \/ ReadCert
    \/ ReadKey
    \/ ReloadOk
    \/ (fails < MaxFails /\ ReloadErr)
    \/ SleepDone
    \/ RetrySend

SpecServe == InitReload /\ [][NextServe]_vars

\* start_tls_server while the certificate and key files are left alone: no
\* notification arrives, the reload loop waits in rx.recv().
NextJoin ==
    \/ InitialLoad
    \/ ServerStart
    \/ init_http_to_https_redirect
    \/ init_certificate_watch
    \/ JoinReturn

FairSpecJoin ==
    /\ Start(0)
    /\ [][NextJoin]_vars
    /\ WF_vars(InitialLoad)
    /\ WF_vars(ServerStart)
    /\ WF_vars(init_http_to_https_redirect)
    /\ WF_vars(init_certificate_watch)
    /\ WF_vars(JoinReturn)

----------------------------------------------------------------------------
(* Properties of start_tls_server and init_certificate_watch. *)

\* the files hold one well-formed version and will not change any more
Settled ==
    /\ events_left = 0
    /\ cert_file # Bad
    /\ cert_file = key_file

\* C1: whatever content-modified events arrived, once the files are left
\* with parsable contents the reload loop eventually installs the
\* configuration built from them (checked under FairSpecReload).
C1_LastContentsInstalled ==
    Settled ~> (tls_config = <<cert_file, key_file>>)

\* C2: the reload loop never blocks on its own retry_tx.send: after a
\* failed reload it queues its signal (or finds one queued) and waits in
\* rx.recv() again.  No step leaves "retry_parked".
C2_RetryNeverBlocks == tls_watcher # "retry_parked"

\* a future of join! has ended with an error while start_tls_server is
\* in join!
TaskFailed ==
    /\ main = "join"
    /\ "err" \in {server, http_to_https_redirect, tls_watcher}

\* C3: when one of the three futures ends with an error, start_tls_server
\* eventually returns an error (checked under FairSpecJoin).
C3_ErrorEndsProcess == TaskFailed ~> (main = "returned_err")

\* C4: a failed reload leaves the shared configuration as the last
\* successful load made it and does not crash the process, and its retry
\* is scheduled: the signal is queued and the loop waits in rx.recv().
C4_FailedReloadHarmless ==
    [][/\ ReloadErr => (tls_config' = tls_config /\ main' # "panicked")
       /\ RetrySend => (tls_watcher' = "recv" /\ slot' = "full")]_vars

\* reloads that are pending: the queued signal and the senders that wait
\* to enqueue theirs
Pending ==
    (IF slot = "free" THEN 0 ELSE 1) + parked
    + (IF tls_watcher = "retry_parked" THEN 1 ELSE 0)

\* C6: signals coalesce: a signal that finds the queue full is dropped, so
\* at most one reload is pending at every moment.
C6_AtMostOnePending == Pending <= 1

\* limb i of the number 2^n
Pow2Limb(n, i) == IF i = n \div LimbBits + 1 THEN 2 ^ (n % LimbBits) ELSE 0

\* limb i of the u64 d, 0 beyond its width
Limb(d, i) == IF i <= NLimbs THEN d[i] ELSE 0

\* the u64 d holds the number 2^n
IsPow2(d, n) ==
    \A i \in 1..(NLimbs + n \div LimbBits + 1) : Limb(d, i) = Pow2Limb(n, i)

\* C7: after N >= 1 consecutive failed reloads the delay slept before the
\* next attempt is 2^N ms, and after a successful reload (and at the start)
\* the delay is 1 ms (checked under SpecReload).
C7_DelayDoubles ==
    /\ (tls_watcher = "sleep" /\ fails < FailsCap) => IsPow2(delay, fails)
    /\ (tls_watcher = "recv" /\ fails = 0) => IsPow2(delay, 0)

\* C11: once init_http_to_https_redirect has run, the listener on port 80
\* was started exactly when the redirect is enabled and the HTTPS port is
\* 443; with the redirect enabled on another port the function has logged
\* its diagnostic and returned Ok, and start_tls_server has not returned
\* because of it: it returns only when the other two futures have failed.
C11_RedirectOnlyOn443 ==
    http_to_https_redirect # "init" =>
        /\ (http_to_https_redirect \in {"serving", "err"})
              <=> (tls_redirect_http /\ addr_port = HTTPS_PORT)
        /\ (tls_redirect_http /\ addr_port # HTTPS_PORT)
              <=> (http_to_https_redirect = "ok_logged")
        /\ (http_to_https_redirect = "ok_logged" /\ main = "returned_err")
              => (server = "err" /\ tls_watcher = "err")

\* the redirect was asked for on port 3000: the diagnostic is logged, the
\* HTTPS listener serves and the reload loop has handled a reload
C11_Witness ==
    /\ http_to_https_redirect = "ok_logged"
    /\ addr_port = OTHER_PORT
    /\ main = "join"
    /\ server = "serving"
    /\ tls_watcher = "read_cert"

\* C12: start_tls_server never returns Ok, and the reload loop of
\* init_certificate_watch never ends with Ok.
C12_NeverReturnsOk ==
    /\ main # "returned_ok"
    /\ tls_watcher # "ok"

\* join! has completed after a successful initial load (all three futures
\* ended), and start_tls_server returned
C12_Witness ==
    /\ tls_config # NoConfig
    /\ main \notin {"start", "join", "panicked"}
    /\ http_to_https_redirect \in {"ok", "ok_logged"}

\* C14: a notification of any kind other than content-modified (metadata,
\* creation, removal, a watcher error) spawns no sender, queues nothing,
\* does not move the reload loop and leaves the shared configuration as it
\* is.
C14_OnlyContentSignals ==
    [][\A kind \in EventKinds \ {"content"}, file \in {"cert", "key"},
          c \in Contents :
            WatcherCallback(kind, file, c) =>
                /\ spawned' = spawned
                /\ slot' = slot
                /\ parked' = parked
                /\ tls_watcher' = tls_watcher
                /\ tls_config' = tls_config]_vars

\* the certificate file was removed while the loop waits: nothing is
\* pending, no reload has failed and the configuration loaded before is
\* still the shared one
C14_Witness ==
    /\ main = "join"
    /\ tls_watcher = "recv"
    /\ cert_file = Bad
    /\ fails = 0
    /\ spawned = 0
    /\ parked = 0
    /\ slot = "free"
    /\ tls_config = <<key_file, key_file>>

\* C15: a reload attempt starts only when the loop, waiting in rx.recv(),
\* takes a message (never from the backoff sleep or from the retry send),
\* and after the initial load the shared configuration changes only at the
\* end of the one attempt in progress.
C15_OneReloadAtATime ==
    [][/\ (tls_watcher' = "read_cert" /\ tls_watcher # "read_cert")
            => (tls_watcher = "recv" /\ slot = "full")
       /\ (tls_config' # tls_config)
            => (main = "start" \/ tls_watcher = "reload_result")]_vars

\* an attempt that follows a failed one is in progress
C15_Witness ==
    /\ tls_watcher = "read_key"
    /\ fails > 0

\* C16: a connection that is accepted gets the configuration the shared
\* handle holds at that moment; a successful reload puts the configuration
\* built from the files into that handle, so later connections get it, and
\* leaves the open connections with theirs; the listener, once bound, stays
\* bound whatever the reloads do.
C16_ConnectionsUseCurrentContext ==
    [][/\ (Len(conns') > Len(conns))
            => (server = "serving" /\ conns'[Len(conns')] = tls_config)
       /\ ReloadOk => tls_config' = <<read_cert, read_key>>
       /\ (tls_config' # tls_config) => conns' = conns
       /\ (server = "serving") => (server' = "serving")]_vars

\* a connection accepted before a reload still has the old configuration
\* after the reload has installed another
C16_Witness ==
    /\ Len(conns) = 1
    /\ conns[1] # tls_config
    /\ tls_watcher = "recv"
    /\ fails = 0

\* C18: when the initial load fails start_tls_server has returned the error
\* and none of the three futures was started; a shared configuration, once
\* there is one, was built from a usable certificate and a usable key.
C18_FailedInitialLoad ==
    /\ (main # "start" /\ tls_config = NoConfig) =>
          /\ main = "returned_err"
          /\ server = "init"
          /\ http_to_https_redirect = "init"
          /\ tls_watcher = "init"
    /\ (tls_config # NoConfig) => (tls_config[1] # Bad /\ tls_config[2] # Bad)

\* the initial load has failed on an unusable key file
C18_Witness ==
    /\ main = "returned_err"
    /\ tls_config = NoConfig
    /\ key_file = Bad

\* C19: `delay *= 2` never overflows: the delay is always a power of two
\* that fits 64 bits and the multiplication never panics.
C19_DelayNeverOverflows ==
    /\ tls_watcher # "panicked"
    /\ \E n \in 0..(DelayBits - 1) : IsPow2(delay, n)

----------------------------------------------------------------------------
(* redirect: the handler of the plain HTTP listener.  Text is a sequence   *)
(* of one-character strings; an Option is a sequence of length 0 or 1.     *)

None == <<>>
Some(x) == <<x>>

\* The bytes a Host header value is made of here: a letter, the colon, the
\* digits of "80", a space (visible ASCII, but no URI character) and "xFF",
\* the byte 0xFF, which is not visible ASCII.
HostBytes == {"a", ":", "8", "0", " ", "xFF"}
HeaderValues == UNION {[1..n -> HostBytes] : n \in 0..MaxHostLen}

\* req.uri() of the four forms of a request target: origin-form ("/",
\* "/a?x"), asterisk-form ("*"), absolute-form ("http://a/") and
\* authority-form ("a:80", which has no path), as Uri::into_parts gives them.
Uris ==
    {[scheme |-> None, authority |-> None, path_and_query |-> Some(<<"/">>)],
     [scheme |-> None, authority |-> None,
      path_and_query |-> Some(<<"/", "a", "?", "x">>)],
     [scheme |-> None, authority |-> None, path_and_query |-> Some(<<"*">>)],
     [scheme |-> Some(<<"h", "t", "t", "p">>), authority |-> Some(<<"a">>),
      path_and_query |-> Some(<<"/">>)],
     [scheme |-> None, authority |-> Some(<<"a", ":", "8", "0">>),
      path_and_query |-> None]}

Requests ==
    [kind : {"request"}, uri : Uris,
     host : {None} \cup {Some(h) : h \in HeaderValues}]

BAD_REQUEST == 400
PERMANENT_REDIRECT == 308

\* Response::builder().status(400).body(Body::empty()).unwrap()
BadRequest == [kind |-> "response", status |-> BAD_REQUEST, location |-> None]

\* the handler panicked (`expect` on an Err): no response is made
Panicked == [kind |-> "panic", status |-> 0, location |-> None]

\* Redirect::permanent(uri).into_response(): axum answers 308 Permanent
\* Redirect with the uri as Location
Redirect_permanent(uri) ==
    [kind |-> "response", status |-> PERMANENT_REDIRECT, location |-> Some(uri)]

\* HeaderValue::to_str: Ok when every byte is visible ASCII
to_str_ok(v) == \A i \in 1..Len(v) : v[i] # "xFF"

\* str::replacen(from, to, 1): the first match only
RECURSIVE replace_first(_, _, _)
replace_first(s, from, to) ==
    IF Len(s) < Len(from) THEN s
    ELSE IF SubSeq(s, 1, Len(from)) = from
         THEN to \o SubSeq(s, Len(from) + 1, Len(s))
         ELSE <<Head(s)>> \o replace_first(Tail(s), from, to)

\* str::replace(from, to): every non-overlapping match, left to right
RECURSIVE replace(_, _, _)
replace(s, from, to) ==
    IF Len(s) < Len(from) THEN s
    ELSE IF SubSeq(s, 1, Len(from)) = from
         THEN to \o replace(SubSeq(s, Len(from) + 1, Len(s)), from, to)
         ELSE <<Head(s)>> \o replace(Tail(s), from, to)

\* str::parse::<Authority>() is Ok: the text is not empty, every byte is a
\* URI character (a space is not), and there is at most one colon outside
\* brackets (the bytes here hold no '/', '?', '#', '[', ']', '@' or '%').
authority_parse_ok(s) ==
    /\ Len(s) > 0
    /\ \A i \in 1..Len(s) : s[i] # " "
    /\ Cardinality({i \in 1..Len(s) : s[i] = ":"}) <= 1

\* Uri::from_parts: with a scheme, the authority and the path must be
\* there; without one, authority and path together are an error.
from_parts_ok(parts) ==
    IF parts.scheme # None
    THEN parts.authority # None /\ parts.path_and_query # None
    ELSE ~(parts.authority # None /\ parts.path_and_query # None)

\* the index of the first '?' of a path_and_query, or 0
QueryAt(pq) ==
    IF \E i \in 1..Len(pq) : pq[i] = "?"
    THEN CHOOSE i \in 1..Len(pq) :
            pq[i] = "?" /\ \A j \in 1..(i - 1) : pq[j] # "?"
    ELSE 0

\* PathAndQuery::path: the text before the '?', "/" when that is empty
path(pq) ==
    LET p == IF QueryAt(pq) = 0 THEN pq ELSE SubSeq(pq, 1, QueryAt(pq) - 1)
    IN  IF p = <<>> THEN <<"/">> ELSE p

\* Uri::to_string: scheme "://" authority path, then "?" query if any
to_string(parts) ==
    LET pq == parts.path_and_query[1]
    IN  parts.scheme[1] \o <<":", "/", "/">> \o parts.authority[1] \o path(pq)
        \o (IF QueryAt(pq) = 0 THEN <<>>
            ELSE <<"?">> \o SubSeq(pq, QueryAt(pq) + 1, Len(pq)))

\* the handler as it was before it answered 400: a missing or unreadable
\* Host header is a panic
redirect_expect_host(r) ==
    IF r.host = None \/ ~to_str_ok(r.host[1]) THEN Panicked
    ELSE LET https_host == replace(r.host[1], <<"8", "0">>, <<"4", "4", "3">>)
         IN  IF ~authority_parse_ok(https_host) THEN Panicked
             ELSE Redirect_permanent(
                      to_string([scheme |-> Some(<<"h", "t", "t", "p", "s">>),
                                 authority |-> Some(https_host),
                                 path_and_query |->
                                     IF r.uri.path_and_query = None
                                     THEN Some(<<"/">>)
                                     ELSE r.uri.path_and_query]))

\* async fn redirect(req: Request) -> Response
redirect(r) ==
    LET parts == [r.uri EXCEPT
                     !.scheme = Some(<<"h", "t", "t", "p", "s">>),
                     !.path_and_query =
                         IF @ = None THEN Some(<<"/">>) ELSE @]
    IN  IF r.host = None THEN BadRequest
        ELSE IF ~to_str_ok(r.host[1]) THEN BadRequest
        ELSE LET https_host ==
                     replace(r.host[1], <<"8", "0">>, <<"4", "4", "3">>)
             IN  IF ~authority_parse_ok(https_host) THEN Panicked
                 ELSE LET rebuilt ==
                              [parts EXCEPT !.authority = Some(https_host)]
                      IN  IF ~from_parts_ok(rebuilt) THEN BadRequest
                          ELSE Redirect_permanent(to_string(rebuilt))

\* The redirect listener serves (redirect was asked for on port 443) and is
\* given a request.
InitRedirect ==
    /\ main = "join"
    /\ tls_redirect_http = TRUE
    /\ addr_port = HTTPS_PORT
    /\ server = "serving"
    /\ http_to_https_redirect = "serving"
    /\ tls_watcher = "recv"
    /\ cert_file = 1
    /\ key_file = 1
    /\ tls_config = <<1, 1>>
    /\ read_cert = Bad
    /\ read_key = Bad
    /\ slot = "free"
    /\ spawned = 0
    /\ parked = 0
    /\ delay = U64Of(1)
    /\ fails = 0
    /\ events_left = 0
    /\ conns = <<>>
    /\ req \in Requests
    /\ resp = NoResponse
    /\ ConfigResolved

\* the fallback route calls the handler with the request
Handle ==
    /\ http_to_https_redirect = "serving"
    /\ resp.kind = "none"
    /\ resp' = redirect(req)
    /\ UNCHANGED <<tlsvars, req, cfgvars>>

NextRedirect == Handle

SpecRedirect == InitRedirect /\ [][NextRedirect]_vars

----------------------------------------------------------------------------
(* Properties of redirect, checked under SpecRedirect. *)

\* s from index i on, with every occurrence of "80" turned into "443"
RECURSIVE Port443From(_, _)
Port443From(s, i) ==
    IF i > Len(s) THEN <<>>
    ELSE IF i < Len(s) /\ s[i] = "8" /\ s[i + 1] = "0"
         THEN <<"4", "4", "3">> \o Port443From(s, i + 2)
         ELSE <<s[i]>> \o Port443From(s, i + 1)

\* the request has been handled
Handled == resp.kind # "none"

\* the Host header is there and is text
HostIsText == req.host # None /\ to_str_ok(req.host[1])

\* "https://", the rewritten Host value, the path and query of the target
HttpsUrl(r) ==
    <<"h", "t", "t", "p", "s", ":", "/", "/">> \o Port443From(r.host[1], 1)
    \o (IF r.uri.path_and_query = None THEN <<"/">>
        ELSE r.uri.path_and_query[1])

\* the request has a Host header that is text and whose rewritten value is
\* an authority, so that the URL can be rebuilt
C8_Case ==
    /\ Handled
    /\ HostIsText
    /\ authority_parse_ok(Port443From(req.host[1], 1))

\* C8, as stated: such a request is answered with status 301 and the
\* https URL (Host with every "80" replaced by "443", then path and query)
\* as Location.
C8_Redirect301 ==
    C8_Case =>
        /\ resp.kind = "response"
        /\ resp.status = 301
        /\ resp.location = Some(HttpsUrl(req))

\* C8, amended: such a request is answered with status 308 (Permanent
\* Redirect) and the https URL (Host with every "80" replaced by "443",
\* then path and query) as Location.
C8_Redirect308 ==
    C8_Case =>
        /\ resp.kind = "response"
        /\ resp.status = 308
        /\ resp.location = Some(HttpsUrl(req))

\* GET /a?x with Host a:80 has been answered with Location https://a:443/a?x
C8_Witness ==
    /\ Handled
    /\ req.host = Some(<<"a", ":", "8", "0">>)
    /\ req.uri.path_and_query = Some(<<"/", "a", "?", "x">>)
    /\ resp.status = 308
    /\ resp.location =
          Some(<<"h", "t", "t", "p", "s", ":", "/", "/", "a", ":", "4", "4", "3",
                 "/", "a", "?", "x">>)

\* C9: a request whose Host header is absent or is not valid text is
\* answered with status 400 and no Location header.
C9_NoHostIs400 ==
    (Handled /\ ~HostIsText) =>
        /\ resp.kind = "response"
        /\ resp.status = 400
        /\ resp.location = None

\* a request without a Host header has been answered with 400
C9_Witness ==
    /\ Handled
    /\ req.host = None
    /\ resp.kind = "response"
    /\ resp.status = 400
    /\ resp.location = None

\* C10: a request whose rewritten Host value is not a valid authority (the
\* URL cannot be rebuilt) is answered with 400 Bad Request; the handler does
\* not panic.
C10_UnbuildableIs400 ==
    (Handled /\ HostIsText /\ ~authority_parse_ok(Port443From(req.host[1], 1))) =>
        /\ resp.kind = "response"
        /\ resp.status = 400

\* the request target has no path and query: it is authority-form, whose
\* Uri has no path_and_query, or the asterisk
NoPathAndQuery ==
    \/ req.uri.path_and_query = None
    \/ req.uri.path_and_query = Some(<<"*">>)

\* C17: a request with a valid Host header whose target has no path and
\* query (none, or `*`) is redirected to the https URL with the path "/".
C17_NoPathIsSlash ==
    (C8_Case /\ NoPathAndQuery) =>
        resp.location =
            Some(<<"h", "t", "t", "p", "s", ":", "/", "/">>
                 \o Port443From(req.host[1], 1) \o <<"/">>)

----------------------------------------------------------------------------
(* ServeArgs::resolve_config (src/src/config.rs).  A path is a sequence of  *)
(* components, <<"/", ..>> when it is absolute.                             *)

\* #[clap(short, long, default_value_t = 3000)] pub port: u16
DEFAULT_PORT == 3000
\* #[clap(long, requires = "log_path", default_value = "7")]
DEFAULT_LOG_MAX_FILES == 7
\* #[clap(short, long, default_value = "127.0.0.1")] pub addr: Ipv4Addr
DEFAULT_ADDR == "127.0.0.1"

\* a `tls` subcommand with its certificate and key paths
Tls(cert, key) == [cert |-> cert, key |-> key, redirect_http |-> FALSE]

\* The command lines: every argument is absent or given with one value.
\* clap rejects --ok without --not-found and --log-max-files without
\* --log-path (`requires`).  log_level counts the -v flags.
CommandLines ==
    {cl \in [kind : {"cli"},
             config : {None, Some(<<"serve.toml">>)},
             subcommand : {None, Some(Tls(<<"a.crt">>, <<"a.key">>))},
             path : {None, Some(<<"a">>)},
             port : {None, Some(8080)},
             addr : {None, Some("0.0.0.0")},
             disable_compression : BOOLEAN,
             not_found : {None, Some(<<"a.html">>)},
             ok : BOOLEAN,
             log_level : {0, 1},
             log_path : {None, Some(<<"a_logs">>)},
             log_max_files : {None, Some(3)}] :
        /\ cl.ok => cl.not_found # None
        /\ cl.log_max_files # None => cl.log_path # None}

\* ServeArgs::parse(): the struct clap builds, with the defaults of port,
\* addr and log_max_files filled in
parse(cl) ==
    [config |-> cl.config,
     subcommand |-> cl.subcommand,
     path |-> cl.path,
     port |-> IF cl.port = None THEN DEFAULT_PORT ELSE cl.port[1],
     addr |-> IF cl.addr = None THEN DEFAULT_ADDR ELSE cl.addr[1],
     disable_compression |-> cl.disable_compression,
     not_found |-> cl.not_found,
     ok |-> cl.ok,
     log_level |-> cl.log_level,
     log_path |-> cl.log_path,
     log_max_files |-> IF cl.log_max_files = None
                       THEN Some(DEFAULT_LOG_MAX_FILES)
                       ELSE cl.log_max_files]

\* The ServeArgs a configuration file deserialises to: one that sets every
\* field (to values no command line here gives), and the one `serve
\* --config serve.toml` alone writes.
FileArgs ==
    {[config |-> None,
      subcommand |-> Some(Tls(<<"/", "b.crt">>, <<"/", "b.key">>)),
      path |-> Some(<<"/", "b">>),
      port |-> 9090,
      addr |-> "10.0.0.1",
      disable_compression |-> FALSE,
      not_found |-> Some(<<"/", "b.html">>),
      ok |-> FALSE,
      log_level |-> 2,
      log_path |-> Some(<<"/", "b_logs">>),
      log_max_files |-> Some(5)],
     [config |-> None,
      subcommand |-> None,
      path |-> None,
      port |-> DEFAULT_PORT,
      addr |-> DEFAULT_ADDR,
      disable_compression |-> FALSE,
      not_found |-> None,
      ok |-> FALSE,
      log_level |-> 0,
      log_path |-> None,
      log_max_files |-> Some(DEFAULT_LOG_MAX_FILES)]}

\* what is at the path of --config: nothing, a directory, a file that is
\* not the TOML of a ServeArgs, or a file that is
ConfigFiles ==
    [kind : {"missing", "dir", "garbage"}, args : {None}]
    \cup [kind : {"toml"}, args : {Some(a) : a \in FileArgs}]

Ok(args) == [kind |-> "Ok", args |-> Some(args), err |-> None]
Err(e) == [kind |-> "Err", args |-> None, err |-> Some(e)]

\* Option::or
Option_or(a, b) == IF a # None THEN a ELSE b

\* p.canonicalize().unwrap_or(p): the absolute path when p exists
canonicalize(p, exists) ==
    IF exists /\ Head(p) # "/" THEN <<"/">> \o p ELSE p

\* Option::map(|p| p.canonicalize().unwrap_or(p))
map_canonicalize(o, exists) ==
    IF o = None THEN None ELSE Some(canonicalize(o[1], exists))

\* write_config: the ServeArgs that is serialised to the file
write_config(self, exists) ==
    [self EXCEPT
        !.config = None,
        !.path = map_canonicalize(@, exists),
        !.not_found = map_canonicalize(@, exists),
        !.log_path = map_canonicalize(@, exists),
        !.subcommand =
            IF @ = None THEN None
            ELSE Some([@[1] EXCEPT !.cert = canonicalize(@, exists),
                                   !.key = canonicalize(@, exists)])]

\* Ok(Self { .. }) of resolve_config: self is the parsed command line,
\* config the deserialised file
merged(self, config) ==
    [config |-> self.config,
     subcommand |-> config.subcommand,
     path |-> Option_or(self.path, config.path),
     port |-> config.port,
     addr |-> config.addr,
     disable_compression |->
         self.disable_compression \/ config.disable_compression,
     not_found |-> Option_or(self.not_found, config.not_found),
     ok |-> self.ok \/ config.ok,
     log_level |-> IF self.log_level # 0 THEN self.log_level
                   ELSE config.log_level,
     log_path |-> Option_or(self.log_path, config.log_path),
     log_max_files |-> Option_or(self.log_max_files, config.log_max_files)]

\* The file after `if !config_path.exists() { self.write_config()?; }`
written(self, file, exists) ==
    IF file.kind = "missing"
    THEN [kind |-> "toml", args |-> Some(write_config(self, exists))]
    ELSE file

\* pub fn resolve_config(self) -> Result<Self, ServeError>, given what is
\* at the path of --config, whether the paths named exist and whether the
\* reads and writes of the file succeed
resolve_config(self, file, exists, io_ok) ==
    IF self.config = None THEN Ok(self)
    ELSE IF file.kind = "missing" /\ ~io_ok THEN Err("Io")
    ELSE IF written(self, file, exists).kind = "dir" THEN Err("InvalidPath")
    ELSE IF ~io_ok THEN Err("Io")
    ELSE IF written(self, file, exists).kind = "garbage" THEN Err("Toml")
    ELSE Ok(merged(self, written(self, file, exists).args[1]))

\* The command line is parsed and start_tls_server is not called yet.
InitConfig ==
    /\ main = "start"
    /\ tls_redirect_http = FALSE
    /\ addr_port = OTHER_PORT
    /\ server = "init"
    /\ http_to_https_redirect = "init"
    /\ tls_watcher = "init"
    /\ cert_file = 1
    /\ key_file = 1
    /\ read_cert = Bad
    /\ read_key = Bad
    /\ tls_config = NoConfig
    /\ slot = "free"
    /\ spawned = 0
    /\ parked = 0
    /\ delay = U64Of(1)
    /\ fails = 0
    /\ events_left = 0
    /\ conns = <<>>
    /\ req = NoRequest
    /\ resp = NoResponse
    /\ cli \in CommandLines
    /\ config_file \in ConfigFiles
    /\ cli.config = None => config_file.kind = "missing"
    /\ resolved = NoResult

\* resolve_config is called on the parsed command line
ResolveConfig ==
    /\ cli # NoCli
    /\ resolved = NoResult
    /\ \E exists \in BOOLEAN, io_ok \in BOOLEAN :
          /\ resolved' = resolve_config(parse(cli), config_file, exists, io_ok)
          /\ config_file' =
                IF cli.config # None /\ io_ok
                THEN written(parse(cli), config_file, exists)
                ELSE config_file
    /\ UNCHANGED <<tlsvars, httpvars, cli>>

NextConfig == ResolveConfig

SpecConfig == InitConfig /\ [][NextConfig]_vars

----------------------------------------------------------------------------
(* Properties of resolve_config, checked under SpecConfig. *)

\* the configuration resolved from a command line that names a
\* configuration file
Resolved == resolved.args[1]

\* the configuration the file holds
InFile == config_file.args[1]

\* resolve_config has returned Ok for a command line that names a
\* configuration file
C13_Case ==
    /\ resolved # NoResult
    /\ resolved.kind = "Ok"
    /\ cli.config # None

\* C13: command line arguments override the configuration file: every
\* field given on the command line, with another value in the file, has
\* the value of the command line in the resolved configuration.
C13_CommandLineOverrides ==
    C13_Case =>
        /\ (cli.port # None /\ InFile.port # cli.port[1])
              => Resolved.port = cli.port[1]
        /\ (cli.addr # None /\ InFile.addr # cli.addr[1])
              => Resolved.addr = cli.addr[1]
        /\ (cli.subcommand # None /\ InFile.subcommand # cli.subcommand)
              => Resolved.subcommand = cli.subcommand
        /\ (cli.path # None /\ InFile.path # cli.path)
              => Resolved.path = cli.path
        /\ (cli.not_found # None /\ InFile.not_found # cli.not_found)
              => Resolved.not_found = cli.not_found
        /\ (cli.log_path # None /\ InFile.log_path # cli.log_path)
              => Resolved.log_path = cli.log_path
        /\ (cli.log_max_files # None
                /\ InFile.log_max_files # cli.log_max_files)
              => Resolved.log_max_files = cli.log_max_files
        /\ (cli.log_level # 0 /\ InFile.log_level # cli.log_level)
              => Resolved.log_level = cli.log_level
        /\ (cli.disable_compression /\ ~InFile.disable_compression)
              => Resolved.disable_compression
        /\ (cli.ok /\ ~InFile.ok) => Resolved.ok

====
